---- MODULE Spec2Model ----
(***************************************************************************)
(* Model of build_factory_image.py: the module-level loads of the four     *)
(* static blobs, parse_args, load_user_data, the four append_data calls,   *)
(* the CRC32, Metadata.pack_metadata and the write of the output file.     *)
(*                                                                         *)
(* Bytes objects are sequences of 0..255.  A 32-bit unsigned value that    *)
(* may exceed 2^31 - 1 (the CRC32) is held as a record of its two 16-bit   *)
(* halves, [hi, lo].                                                       *)
(***************************************************************************)
EXTENDS Integers, Sequences, FiniteSets, TLC

\* ------------------------------------------------------------------ bounds
\* section lengths drawn: 0..MaxSmall and alignment-1 .. alignment+MaxSmall
MaxSmall == 1
\* header blob lengths of AnyHeaderSpec: HeaderLen-MaxHeaderDelta .. HeaderLen+MaxHeaderDelta
MaxHeaderDelta == 8
\* length of the non-empty metadata header / footer template drawn
MaxTemplateLen == 4

\* ------------------------------------------------------- program constants
alignment == 16
HeaderLen == 32
CrcSkip == 32
BackupKernelAdjust == 40

None == "None"

\* ------------------------------------------------------------ byte helpers
Zeros(n) == [i \in 1..n |-> 0]

Fill(n, b) == [i \in 1..n |-> b]

\* bytes slicing d[a:b] (0-based, end exclusive)
Slice(d, a, b) == SubSeq(d, a + 1, b)

\* int.to_bytes(4, byteorder="little") for 0 <= n < 2^31
to_bytes_le4(n) ==
    << n % 256, (n \div 256) % 256, (n \div 65536) % 256, (n \div 16777216) % 256 >>

\* the same for a 32-bit value held as its two 16-bit halves
word_to_bytes_le4(w) ==
    << w.lo % 256, w.lo \div 256, w.hi % 256, w.hi \div 256 >>

\* ------------------------------------------------------------------- CRC32
\* zlib.crc32: reflected CRC-32, polynomial 0xEDB88320, initial value and
\* final xor 0xFFFFFFFF, table driven one byte at a time, on 16-bit halves.
PolyHi == 60856
PolyLo == 33568
Mask16 == 65535

\* a ^ b on n-bit operands
RECURSIVE Xor(_, _, _)
Xor(a, b, n) ==
    IF n = 0 THEN 0 ELSE ((a + b) % 2) + 2 * Xor(a \div 2, b \div 2, n - 1)

\* c = (c >> 1) ^ Poly if the low bit is set, else c >> 1
CrcBitStep(c) ==
    LET hi == c.hi \div 2
        lo == (c.lo \div 2) + (c.hi % 2) * 32768
    IN  IF c.lo % 2 = 1
        THEN [hi |-> Xor(hi, PolyHi, 16), lo |-> Xor(lo, PolyLo, 16)]
        ELSE [hi |-> hi, lo |-> lo]

RECURSIVE CrcBits(_, _)
CrcBits(c, k) ==
    IF k = 0 THEN c
    ELSE LET n == CrcBitStep(c)
         IN  IF n.lo <= Mask16 THEN CrcBits(n, k - 1) ELSE n

\* the 256-entry table: entry b is byte b after eight bit steps
CrcTable == [i \in 1..256 |-> CrcBits([hi |-> 0, lo |-> i - 1], 8)] \o << >>

\* c = table[(c ^ b) & 0xFF] ^ (c >> 8)
CrcByteStep(c, b) ==
    LET t  == CrcTable[Xor(c.lo % 256, b, 8) + 1]
        hi == c.hi \div 256
        lo == (c.lo \div 256) + (c.hi % 256) * 256
    IN  [hi |-> Xor(hi, t.hi, 16), lo |-> Xor(lo, t.lo, 16)]

\* the bytes d[i..j] folded into c in order; the range is halved so that
\* the evaluation depth stays logarithmic in the length
RECURSIVE CrcFold(_, _, _, _)
CrcFold(c, d, i, j) ==
    IF i > j THEN c
    ELSE IF i = j THEN CrcByteStep(c, d[i])
    ELSE LET mid == (i + j) \div 2
             m   == CrcFold(c, d, i, mid)
         IN  IF m.lo <= Mask16 THEN CrcFold(m, d, mid + 1, j) ELSE m

zlib_crc32(d) ==
    LET c == CrcFold([hi |-> Mask16, lo |-> Mask16], d, 1, Len(d))
    IN  [hi |-> Mask16 - c.hi, lo |-> Mask16 - c.lo]

\* ------------------------------------------------------------- append_data
\* def append_data(original, data, alignment): returns (original + data, len(data))
\* after data += zero padding
append_data_no_full_block(original, data, align) ==
    LET padded == data \o Zeros((align - ((Len(original) + Len(data)) % align)) % align)
    IN  [buffer |-> original \o padded, length |-> Len(padded), padded |-> padded]

append_data_pad_own_length(original, data, align) ==
    LET padded == data \o Zeros(align - (Len(data) % align))
    IN  [buffer |-> original \o padded, length |-> Len(padded), padded |-> padded]

append_data(original, data, align) ==
    LET padded == data \o Zeros(align - ((Len(original) + Len(data)) % align))
    IN  [buffer |-> original \o padded, length |-> Len(padded), padded |-> padded]

caller_data_in_place(data, padded) == padded

\* `data += ...` on an immutable bytes object rebinds the local name only:
\* the caller's object keeps its value
caller_data_after(data, padded) == data

\* ---------------------------------------------------------------- Metadata
Metadata_sizes_swapped(crc, kernel_len_, rootfs_len_, uboot_len_, ramdisk_len_) ==
    [crc32_checksum      |-> crc,
     primary_kernel_size |-> rootfs_len_,
     squashfs_size       |-> kernel_len_,
     uboot_size          |-> uboot_len_,
     backup_kernel_size  |-> ramdisk_len_]

Metadata(crc, kernel_len_, rootfs_len_, uboot_len_, ramdisk_len_) ==
    [crc32_checksum      |-> crc,
     primary_kernel_size |-> kernel_len_,
     squashfs_size       |-> rootfs_len_,
     uboot_size          |-> uboot_len_,
     backup_kernel_size  |-> ramdisk_len_]

pack_metadata_two_reserved(m) ==
    word_to_bytes_le4(m.crc32_checksum)
    \o to_bytes_le4(m.primary_kernel_size)
    \o to_bytes_le4(m.squashfs_size)
    \o to_bytes_le4(m.uboot_size)
    \o Zeros(4) \o Zeros(4)
    \o << 7, 0, 0, 0 >>
    \o to_bytes_le4(m.backup_kernel_size + BackupKernelAdjust)
    \o to_bytes_le4(2)
    \o << 112, 5, 0, 0 >>

pack_metadata_constants_swapped(m) ==
    word_to_bytes_le4(m.crc32_checksum)
    \o to_bytes_le4(m.primary_kernel_size)
    \o to_bytes_le4(m.squashfs_size)
    \o to_bytes_le4(m.uboot_size)
    \o Zeros(4) \o Zeros(4) \o Zeros(4)
    \o to_bytes_le4(2)
    \o to_bytes_le4(m.backup_kernel_size + BackupKernelAdjust)
    \o << 7, 0, 0, 0 >>
    \o << 112, 5, 0, 0 >>

pack_metadata(m) ==
    word_to_bytes_le4(m.crc32_checksum)
    \o to_bytes_le4(m.primary_kernel_size)
    \o to_bytes_le4(m.squashfs_size)
    \o to_bytes_le4(m.uboot_size)
    \o Zeros(4) \o Zeros(4) \o Zeros(4)
    \o << 7, 0, 0, 0 >>
    \o to_bytes_le4(m.backup_kernel_size + BackupKernelAdjust)
    \o to_bytes_le4(2)
    \o << 112, 5, 0, 0 >>

\* final_data[32:]
crc_region(d) == Slice(d, CrcSkip, Len(d))

\* ------------------------------------------------------------------ inputs
SecLens == (0..MaxSmall) \cup ((alignment - 1)..(alignment + MaxSmall))

HeaderLens == (HeaderLen - MaxHeaderDelta)..(HeaderLen + MaxHeaderDelta)

RootfsFiles == {Fill(n, 170) : n \in SecLens}

KernelFiles == {Fill(n, 187) : n \in SecLens}

RamdiskFiles == {Fill(n, 221) : n \in {1, alignment}}

UbootFiles == {Fill(n, 204) : n \in {1, alignment}}

MetadataHeaderFiles == {Fill(n, 17) : n \in {0, MaxTemplateLen}}

MetadataFooterFiles == {Fill(MaxTemplateLen, 34)}

\* the command line: the set of arguments given
Options == {"output", "kernel", "rootfs", "ramdisk"}

Required == {"output", "kernel", "rootfs"}

\* the output path before the run: absent, or an older file
OutputAbsent == [exists |-> FALSE, data |-> << >>]

OutputOld == [exists |-> TRUE, data |-> << 255, 254, 253 >>]

\* ------------------------------------------------------------------- state
VARIABLES
    pc,                   \* the statement about to run
    exc,                  \* the exception that ended the run, or None
    header_file,          \* content of static/header.bin on disk
    kernel_file,          \* content of the file --kernel names
    argv,                 \* the arguments given on the command line
    output_before,        \* the output path as it was before the run
    output,               \* the output path now
    out_opens,            \* number of successful open(args.output, "wb")
    reads,                \* the input paths read so far, in order
    args_ramdisk,         \* args.ramdisk
    header_data, uboot_data, metadata_header_data, metadata_footer_data,
    kernel_data, rootfs_data, ramdisk_data,
    final_data,
    rootfs_len, kernel_len, uboot_len, ramdisk_len,
    crc32_checksum,
    metadata_block,       \* metadata.pack_metadata()
    offsets               \* len(final_data) at the moment each part was appended

env == << header_file, kernel_file, argv, output_before >>
blobs == << header_data, uboot_data, metadata_header_data, metadata_footer_data >>
user == << kernel_data, rootfs_data, ramdisk_data >>
lens == << rootfs_len, kernel_len, uboot_len, ramdisk_len >>
meta == << crc32_checksum, metadata_block >>
out == << output, out_opens >>
vars == << pc, exc, env, out, reads, args_ramdisk, blobs, user, final_data, lens, meta, offsets >>

main_sequence_crc_before_template ==
    << "load_header", "load_uboot", "load_metadata_header", "load_metadata_footer",
       "parse_args", "load_kernel", "load_rootfs", "load_ramdisk",
       "append_rootfs", "append_kernel", "append_uboot", "append_ramdisk",
       "crc32", "append_metadata_header", "pack_metadata", "append_metadata_footer",
       "open_output", "write_output", "done" >>

main_sequence_open_before_loads ==
    << "load_header", "load_uboot", "load_metadata_header", "load_metadata_footer",
       "parse_args", "open_output", "load_kernel", "load_rootfs", "load_ramdisk",
       "append_rootfs", "append_kernel", "append_uboot", "append_ramdisk",
       "append_metadata_header", "crc32", "pack_metadata", "append_metadata_footer",
       "write_output", "done" >>

main_sequence_parse_first ==
    << "parse_args",
       "load_header", "load_uboot", "load_metadata_header", "load_metadata_footer",
       "load_kernel", "load_rootfs", "load_ramdisk",
       "append_rootfs", "append_kernel", "append_uboot", "append_ramdisk",
       "append_metadata_header", "crc32", "pack_metadata", "append_metadata_footer",
       "open_output", "write_output", "done" >>

\* the statements of the program in execution order: the module-level
\* loads, then main()
main_sequence ==
    << "load_header", "load_uboot", "load_metadata_header", "load_metadata_footer",
       "parse_args", "load_kernel", "load_rootfs", "load_ramdisk",
       "append_rootfs", "append_kernel", "append_uboot", "append_ramdisk",
       "append_metadata_header", "crc32", "pack_metadata", "append_metadata_footer",
       "open_output", "write_output", "done" >>

Pos(s) == CHOOSE i \in 1..Len(main_sequence) : main_sequence[i] = s

NextStep(s) == main_sequence[Pos(s) + 1]

\* statement s has been executed
Past(s) == Pos(pc) > Pos(s)

At(s) == pc = s /\ exc = None

InitCommon ==
    /\ pc = main_sequence[1]
    /\ exc = None
    /\ argv \in SUBSET Options
    /\ kernel_file \in KernelFiles
    /\ output_before \in {OutputAbsent, OutputOld}
    /\ output = output_before
    /\ out_opens = 0
    /\ reads = << >>
    /\ args_ramdisk = None
    /\ header_data = << >> /\ uboot_data = << >>
    /\ metadata_header_data = << >> /\ metadata_footer_data = << >>
    /\ kernel_data = << >> /\ rootfs_data = << >> /\ ramdisk_data = << >>
    /\ final_data = << >>
    /\ rootfs_len = 0 /\ kernel_len = 0 /\ uboot_len = 0 /\ ramdisk_len = 0
    /\ crc32_checksum = [hi |-> 0, lo |-> 0]
    /\ metadata_block = << >>
    /\ offsets = [rootfs |-> 0, kernel |-> 0, uboot |-> 0, ramdisk |-> 0,
                  metadata_header |-> 0, metadata |-> 0, metadata_footer |-> 0]

\* the header blob shipped with the tool: 32 bytes
Init == InitCommon /\ header_file = Zeros(HeaderLen)

\* any header blob: its length is not validated
InitAnyHeader == InitCommon /\ header_file \in {Zeros(n) : n \in HeaderLens}

\* ----------------------------------------------------------------- actions
\* load_binary(path) raising FileNotFoundError
LoadFails ==
    /\ exc' = "FileNotFoundError"
    /\ UNCHANGED << pc, env, out, reads, args_ramdisk, blobs, user, final_data, lens, meta, offsets >>

\* header_data = load_binary("static/header.bin")
LoadHeader ==
    /\ At("load_header")
    /\ \/ /\ header_data' = header_file
          /\ reads' = Append(reads, "static/header.bin")
          /\ pc' = NextStep(pc)
          /\ UNCHANGED << exc, env, out, args_ramdisk, uboot_data, metadata_header_data,
                          metadata_footer_data, user, final_data, lens, meta, offsets >>
       \/ LoadFails

\* uboot_data = load_binary("static/uboot.bin")
LoadUboot ==
    /\ At("load_uboot")
    /\ \/ /\ \E f \in UbootFiles : uboot_data' = f
          /\ reads' = Append(reads, "static/uboot.bin")
          /\ pc' = NextStep(pc)
          /\ UNCHANGED << exc, env, out, args_ramdisk, header_data, metadata_header_data,
                          metadata_footer_data, user, final_data, lens, meta, offsets >>
       \/ LoadFails

\* metadata_header_data = load_binary("static/metadata_header.bin")
LoadMetadataHeader ==
    /\ At("load_metadata_header")
    /\ \/ /\ \E f \in MetadataHeaderFiles : metadata_header_data' = f
          /\ reads' = Append(reads, "static/metadata_header.bin")
          /\ pc' = NextStep(pc)
          /\ UNCHANGED << exc, env, out, args_ramdisk, header_data, uboot_data,
                          metadata_footer_data, user, final_data, lens, meta, offsets >>
       \/ LoadFails

\* metadata_footer_data = load_binary("static/metadata_footer.bin")
LoadMetadataFooter ==
    /\ At("load_metadata_footer")
    /\ \/ /\ \E f \in MetadataFooterFiles : metadata_footer_data' = f
          /\ reads' = Append(reads, "static/metadata_footer.bin")
          /\ pc' = NextStep(pc)
          /\ UNCHANGED << exc, env, out, args_ramdisk, header_data, uboot_data,
                          metadata_header_data, user, final_data, lens, meta, offsets >>
       \/ LoadFails

\* args = parse_args(): argparse exits when a required argument is absent
ParseArgs ==
    /\ At("parse_args")
    /\ IF Required \subseteq argv
       THEN /\ args_ramdisk' = (IF "ramdisk" \in argv THEN "ramdisk" ELSE None)
            /\ pc' = NextStep(pc)
            /\ exc' = exc
       ELSE /\ exc' = "SystemExit"
            /\ UNCHANGED << pc, args_ramdisk >>
    /\ UNCHANGED << env, out, reads, blobs, user, final_data, lens, meta, offsets >>

\* kernel_data = load_binary(args.kernel)
LoadKernel ==
    /\ At("load_kernel")
    /\ \/ /\ kernel_data' = kernel_file
          /\ reads' = Append(reads, "kernel")
          /\ pc' = NextStep(pc)
          /\ UNCHANGED << exc, env, out, args_ramdisk, blobs, rootfs_data, ramdisk_data,
                          final_data, lens, meta, offsets >>
       \/ LoadFails

\* rootfs_data = load_binary(args.rootfs)
LoadRootfs ==
    /\ At("load_rootfs")
    /\ \/ /\ \E f \in RootfsFiles : rootfs_data' = f
          /\ reads' = Append(reads, "rootfs")
          /\ pc' = NextStep(pc)
          /\ UNCHANGED << exc, env, out, args_ramdisk, blobs, kernel_data, ramdisk_data,
                          final_data, lens, meta, offsets >>
       \/ LoadFails

\* ramdisk_data = load_binary(args.ramdisk) if args.ramdisk else kernel_data
default_ramdisk(kernel) == kernel

LoadRamdisk ==
    /\ At("load_ramdisk")
    /\ IF args_ramdisk # None
       THEN \/ /\ \E f \in RamdiskFiles : ramdisk_data' = f
               /\ reads' = Append(reads, "ramdisk")
               /\ pc' = NextStep(pc)
               /\ UNCHANGED << exc, env, out, args_ramdisk, blobs, kernel_data, rootfs_data,
                               final_data, lens, meta, offsets >>
            \/ LoadFails
       ELSE /\ ramdisk_data' = default_ramdisk(kernel_data)
            /\ pc' = NextStep(pc)
            /\ UNCHANGED << exc, env, out, reads, args_ramdisk, blobs, kernel_data, rootfs_data,
                            final_data, lens, meta, offsets >>

\* final_data = header_data
\* final_data, rootfs_len = append_data(final_data, rootfs_data, alignment)
AppendRootfs ==
    /\ At("append_rootfs")
    /\ LET r == append_data(header_data, rootfs_data, alignment) IN
        /\ final_data' = r.buffer
        /\ rootfs_len' = r.length
        /\ rootfs_data' = caller_data_after(rootfs_data, r.padded)
        /\ offsets' = [offsets EXCEPT !.rootfs = Len(header_data)]
    /\ pc' = NextStep(pc)
    /\ UNCHANGED << exc, env, out, reads, args_ramdisk, blobs, kernel_data, ramdisk_data,
                    kernel_len, uboot_len, ramdisk_len, meta >>

\* final_data, kernel_len = append_data(final_data, kernel_data, alignment)
\* without --ramdisk, ramdisk_data is the same object as kernel_data
AppendKernel ==
    /\ At("append_kernel")
    /\ LET r == append_data(final_data, kernel_data, alignment) IN
        /\ final_data' = r.buffer
        /\ kernel_len' = r.length
        /\ kernel_data' = caller_data_after(kernel_data, r.padded)
        /\ ramdisk_data' = (IF args_ramdisk = None THEN kernel_data' ELSE ramdisk_data)
        /\ offsets' = [offsets EXCEPT !.kernel = Len(final_data)]
    /\ pc' = NextStep(pc)
    /\ UNCHANGED << exc, env, out, reads, args_ramdisk, blobs, rootfs_data,
                    rootfs_len, uboot_len, ramdisk_len, meta >>

\* final_data, uboot_len = append_data(final_data, uboot_data, alignment)
AppendUboot ==
    /\ At("append_uboot")
    /\ LET r == append_data(final_data, uboot_data, alignment) IN
        /\ final_data' = r.buffer
        /\ uboot_len' = r.length
        /\ uboot_data' = caller_data_after(uboot_data, r.padded)
        /\ offsets' = [offsets EXCEPT !.uboot = Len(final_data)]
    /\ pc' = NextStep(pc)
    /\ UNCHANGED << exc, env, out, reads, args_ramdisk, header_data, metadata_header_data,
                    metadata_footer_data, user, rootfs_len, kernel_len, ramdisk_len, meta >>

\* final_data, ramdisk_len = append_data(final_data, ramdisk_data, alignment)
AppendRamdisk ==
    /\ At("append_ramdisk")
    /\ LET r == append_data(final_data, ramdisk_data, alignment) IN
        /\ final_data' = r.buffer
        /\ ramdisk_len' = r.length
        /\ ramdisk_data' = caller_data_after(ramdisk_data, r.padded)
        /\ kernel_data' = (IF args_ramdisk = None THEN ramdisk_data' ELSE kernel_data)
        /\ offsets' = [offsets EXCEPT !.ramdisk = Len(final_data)]
    /\ pc' = NextStep(pc)
    /\ UNCHANGED << exc, env, out, reads, args_ramdisk, blobs, rootfs_data,
                    rootfs_len, kernel_len, uboot_len, meta >>

\* final_data += metadata_header_data
AppendMetadataHeader ==
    /\ At("append_metadata_header")
    /\ final_data' = final_data \o metadata_header_data
    /\ offsets' = [offsets EXCEPT !.metadata_header = Len(final_data)]
    /\ pc' = NextStep(pc)
    /\ UNCHANGED << exc, env, out, reads, args_ramdisk, blobs, user, lens, meta >>

\* crc32_checksum = zlib.crc32(final_data[32:])
ComputeCrc ==
    /\ At("crc32")
    /\ crc32_checksum' = zlib_crc32(crc_region(final_data))
    /\ pc' = NextStep(pc)
    /\ UNCHANGED << exc, env, out, reads, args_ramdisk, blobs, user, final_data, lens,
                    metadata_block, offsets >>

\* metadata = Metadata(...); final_data += metadata.pack_metadata()
PackMetadata ==
    /\ At("pack_metadata")
    /\ metadata_block' =
          pack_metadata(Metadata(crc32_checksum, kernel_len, rootfs_len, uboot_len, ramdisk_len))
    /\ final_data' = final_data \o metadata_block'
    /\ offsets' = [offsets EXCEPT !.metadata = Len(final_data)]
    /\ pc' = NextStep(pc)
    /\ UNCHANGED << exc, env, out, reads, args_ramdisk, blobs, user, lens, crc32_checksum >>

\* final_data += metadata_footer_data
AppendMetadataFooter ==
    /\ At("append_metadata_footer")
    /\ final_data' = final_data \o metadata_footer_data
    /\ offsets' = [offsets EXCEPT !.metadata_footer = Len(final_data)]
    /\ pc' = NextStep(pc)
    /\ UNCHANGED << exc, env, out, reads, args_ramdisk, blobs, user, lens, meta >>

\* with open(args.output, "wb") as f: creates the file or truncates it
OpenOutput ==
    /\ At("open_output")
    /\ \/ /\ output' = [exists |-> TRUE, data |-> << >>]
          /\ out_opens' = out_opens + 1
          /\ pc' = NextStep(pc)
          /\ exc' = exc
       \/ /\ exc' = "OSError"
          /\ UNCHANGED << pc, out >>
    /\ UNCHANGED << env, reads, args_ramdisk, blobs, user, final_data, lens, meta, offsets >>

written_short(data) == SubSeq(data, 1, Len(data) - 1)

\* what f.write(data) has put in the file when it returns
written(data) == data

\* what a write that fails part-way may leave in the file
PartialWrites(data) == {SubSeq(data, 1, k) : k \in {0, Len(data) \div 2}}

\* f.write(final_data), then the file is closed
WriteOutput ==
    /\ At("write_output")
    /\ \/ /\ output' = [exists |-> TRUE, data |-> written(final_data)]
          /\ pc' = NextStep(pc)
          /\ exc' = exc
       \/ /\ \E part \in PartialWrites(final_data) :
                output' = [exists |-> TRUE, data |-> part]
          /\ exc' = "OSError"
          /\ pc' = pc
    /\ UNCHANGED << env, out_opens, reads, args_ramdisk, blobs, user, final_data, lens,
                    meta, offsets >>

Next ==
    \/ LoadHeader \/ LoadUboot \/ LoadMetadataHeader \/ LoadMetadataFooter
    \/ ParseArgs
    \/ LoadKernel \/ LoadRootfs \/ LoadRamdisk
    \/ AppendRootfs \/ AppendKernel \/ AppendUboot \/ AppendRamdisk
    \/ AppendMetadataHeader \/ ComputeCrc \/ PackMetadata \/ AppendMetadataFooter
    \/ OpenOutput \/ WriteOutput

Spec == Init /\ [][Next]_vars

AnyHeaderSpec == InitAnyHeader /\ [][Next]_vars

\* ================================================================== claims
\* the run has ended
Ended == pc = "done" \/ exc # None

\* the little-endian 32-bit word at byte offset off of d
Word(d, off) ==
    d[off + 1] + 256 * d[off + 2] + 65536 * d[off + 3] + 16777216 * d[off + 4]

\* the metadata block as it lies in the image
BlockInImage == Slice(final_data, offsets.metadata, offsets.metadata + Len(metadata_block))

\* ---- C1
\* C1 as stated: once packed, the metadata block that main appends to the
\* image is exactly 32 bytes long.
C1_BlockIs32Bytes ==
    Past("pack_metadata") =>
        /\ Len(metadata_block) = 32
        /\ Len(final_data) >= offsets.metadata + 32

\* C1 amended: once packed, the metadata block that main appends to the
\* image is exactly 44 bytes long (eleven 4-byte words), whatever the
\* checksum and the section sizes, and it lies in the image at the offset
\* the buffer had when it was appended.
C1_BlockIs44Bytes ==
    Past("pack_metadata") =>
        /\ Len(metadata_block) = 44
        /\ BlockInImage = metadata_block
        /\ Past("append_metadata_footer") => offsets.metadata_footer = offsets.metadata + 44

C1_Witness ==
    /\ pc = "done"
    /\ Len(metadata_block) = 44
    /\ Len(final_data) = offsets.metadata + 44 + Len(metadata_footer_data)

\* ---- C2
\* C2: every append_data(O, S, 16) call appends P = 16 - ((len(O)+len(S)) mod 16)
\* zero bytes after S, with 1 <= P <= 16 and P = 16 exactly when len(O)+len(S)
\* is a multiple of 16; the returned buffer is O, S, then P zero bytes, its
\* length is a multiple of 16, and the returned length is len(S)+P.
AppendContract(O, S, buffer, length) ==
    LET P == 16 - ((Len(O) + Len(S)) % 16) IN
        /\ P >= 1 /\ P <= 16
        /\ (P = 16) <=> ((Len(O) + Len(S)) % 16 = 0)
        /\ buffer = O \o S \o Zeros(P)
        /\ Len(buffer) % 16 = 0
        /\ length = Len(S) + P

C2_AppendPadsOneToSixteen ==
    [][/\ (pc = "append_rootfs" /\ pc' # pc)
            => AppendContract(header_data, rootfs_data, final_data', rootfs_len')
       /\ (pc = "append_kernel" /\ pc' # pc)
            => AppendContract(final_data, kernel_data, final_data', kernel_len')
       /\ (pc = "append_uboot" /\ pc' # pc)
            => AppendContract(final_data, uboot_data, final_data', uboot_len')
       /\ (pc = "append_ramdisk" /\ pc' # pc)
            => AppendContract(final_data, ramdisk_data, final_data', ramdisk_len')]_vars

\* an empty section appended to an aligned buffer got a full block of padding,
\* and a section appended to a misaligned buffer got less
C2_Witness ==
    /\ Past("append_kernel")
    /\ Len(rootfs_data) = 0
    /\ Len(header_data) % 16 = 0
    /\ rootfs_len = 16
    /\ final_data # << >>
    /\ kernel_len = Len(kernel_data) + 16

\* ---- C3
\* C3 as stated: each of the four section lengths main records is a multiple
\* of 16, whatever the length of the header blob.
C3_AllLengthsMultipleOf16 ==
    /\ Past("append_rootfs") => rootfs_len % 16 = 0
    /\ Past("append_kernel") => kernel_len % 16 = 0
    /\ Past("append_uboot") => uboot_len % 16 = 0
    /\ Past("append_ramdisk") => ramdisk_len % 16 = 0

\* C3 amended: append_data makes the running total a multiple of 16, so the
\* length it returns is a multiple of 16 exactly when the buffer it was given
\* is: the kernel, uboot and secondary-kernel lengths main records are
\* multiples of 16 whatever the header blob, the rootfs length is one exactly
\* when the header blob's length is a multiple of 16.
C3_LengthsAlignedWhenBufferIs ==
    /\ Past("append_rootfs") =>
          /\ (Len(header_data) + rootfs_len) % 16 = 0
          /\ (rootfs_len % 16 = 0) <=> (Len(header_data) % 16 = 0)
    /\ Past("append_kernel") => kernel_len % 16 = 0
    /\ Past("append_uboot") => uboot_len % 16 = 0
    /\ Past("append_ramdisk") => ramdisk_len % 16 = 0

C3_Witness ==
    /\ Past("append_ramdisk")
    /\ Len(header_data) % 16 # 0
    /\ rootfs_len % 16 # 0
    /\ kernel_len % 16 = 0 /\ uboot_len % 16 = 0 /\ ramdisk_len % 16 = 0

\* ---- C4
\* end of the padded secondary-kernel section
EndOfSections == offsets.ramdisk + ramdisk_len

\* C4 as stated: the checksum is the CRC32 of the image bytes from offset 32
\* to the end of the padded secondary-kernel section and of nothing after it.
C4_CrcStopsAtSections ==
    Past("crc32") => crc32_checksum = zlib_crc32(Slice(final_data, 32, EndOfSections))

\* C4 amended: the checksum field is the CRC32 of the image bytes from offset
\* 32 to the start of the metadata block: the four padded sections and the
\* metadata-header template appended after them; the first 32 bytes, the
\* metadata block and the footer are excluded.
C4_CrcCoversSectionsAndTemplate ==
    Past("pack_metadata") =>
        /\ crc32_checksum = zlib_crc32(Slice(final_data, 32, offsets.metadata))
        /\ offsets.metadata = EndOfSections + Len(metadata_header_data)
        /\ Slice(final_data, EndOfSections, offsets.metadata) = metadata_header_data
        /\ crc32_checksum.lo = BlockInImage[1] + 256 * BlockInImage[2]
        /\ crc32_checksum.hi = BlockInImage[3] + 256 * BlockInImage[4]

C4_Witness ==
    /\ pc = "done"
    /\ Len(metadata_header_data) > 0
    /\ offsets.metadata > EndOfSections
    /\ crc32_checksum # [hi |-> 0, lo |-> 0]

C6_BlockWords ==
    Past("pack_metadata") =>
        /\ BlockInImage[1] + 256 * BlockInImage[2] = crc32_checksum.lo
        /\ BlockInImage[3] + 256 * BlockInImage[4] = crc32_checksum.hi
        /\ Word(BlockInImage, 4) = kernel_len
        /\ Word(BlockInImage, 8) = rootfs_len
        /\ Word(BlockInImage, 12) = uboot_len
        /\ Word(BlockInImage, 16) = 0
        /\ Word(BlockInImage, 20) = 0
        /\ Word(BlockInImage, 24) = 0
        /\ Word(BlockInImage, 28) = 7
        /\ Word(BlockInImage, 32) = ramdisk_len + 40
        /\ Word(BlockInImage, 36) = 2
        /\ Word(BlockInImage, 40) = 1392
        /\ Len(BlockInImage) = 44
        /\ rootfs_len = offsets.kernel - offsets.rootfs
        /\ kernel_len = offsets.uboot - offsets.kernel
        /\ uboot_len = offsets.ramdisk - offsets.uboot
        /\ ramdisk_len = offsets.metadata_header - offsets.ramdisk
        /\ kernel_len > Len(kernel_file)

C6_Witness ==
    /\ pc = "done"
    /\ Word(BlockInImage, 4) = 32 /\ Len(kernel_file) = 16
    /\ Word(BlockInImage, 8) = 16
    /\ Word(BlockInImage, 32) = 56

\* ---- C7
\* the inputs a run reads, in order
ExpectedReads ==
    << "static/header.bin", "static/uboot.bin", "static/metadata_header.bin",
       "static/metadata_footer.bin", "kernel", "rootfs" >>
    \o (IF args_ramdisk # None THEN << "ramdisk" >> ELSE << >>)

\* C7: a missing input file aborts the run with the output path never
\* opened and left as it was; the output is opened at most once and only
\* after every input has been read.
C7_ReadsPrecedeOutputOpen ==
    /\ exc = "FileNotFoundError" => (out_opens = 0 /\ output = output_before)
    /\ out_opens <= 1
    /\ out_opens = 1 => reads = ExpectedReads

C7_Witness ==
    /\ exc = "FileNotFoundError"
    /\ pc = "load_kernel"
    /\ output_before = OutputOld
    /\ output = OutputOld

\* ---- C8
\* C8 as stated: when a required argument is missing, no input file has
\* been read at the moment the failure is reported.
C8_NoReadBeforeArgError ==
    exc = "SystemExit" => reads = << >>

\* C8 amended: when a required argument is missing, the failure is raised by
\* parse_args before any caller-supplied file (kernel, rootfs, ramdisk) is
\* read and before the output is opened; the four static blobs have been
\* read by then, at module import.
C8_OnlyStaticReadBeforeArgError ==
    exc = "SystemExit" =>
        /\ reads = << "static/header.bin", "static/uboot.bin",
                      "static/metadata_header.bin", "static/metadata_footer.bin" >>
        /\ out_opens = 0
        /\ output = output_before
        /\ pc = "parse_args"

C8_Witness ==
    /\ exc = "SystemExit"
    /\ "kernel" \notin argv
    /\ Len(reads) = 4

\* ---- C9
\* C9 as stated: when the run has ended, the output path holds the complete
\* image or is exactly as it was before the run.
C9_AllOrNothing ==
    Ended =>
        \/ output = output_before
        \/ /\ Past("append_metadata_footer")
           /\ output = [exists |-> TRUE, data |-> final_data]

\* C9 amended: a run that ends without having opened the output leaves the
\* output path exactly as it was, and a run that completes leaves the
\* complete image; a run whose write fails after the output was opened
\* leaves a created or truncated file that holds only a prefix of the image.
C9_AllOrNothingUntilOpen ==
    Ended =>
        /\ out_opens = 0 => output = output_before
        /\ pc = "done" =>
              /\ output = [exists |-> TRUE, data |-> final_data]
              /\ Len(final_data) = offsets.metadata_footer + Len(metadata_footer_data)
        /\ (out_opens = 1 /\ exc # None) =>
              /\ output.exists
              /\ Len(output.data) <= Len(final_data)
              /\ output.data = SubSeq(final_data, 1, Len(output.data))

C9_Witness ==
    /\ exc = "OSError"
    /\ out_opens = 1
    /\ output_before = OutputOld
    /\ output # output_before
    /\ Len(output.data) < Len(final_data)

\* ---- C10
\* the secondary-kernel section as it lies in the image
SecondarySection == Slice(final_data, offsets.ramdisk, offsets.ramdisk + ramdisk_len)

\* C10: without --ramdisk the secondary-kernel section is the raw kernel
\* bytes followed only by its own padding, and the recorded secondary length
\* is len(kernel) plus that padding; the primary section's padding is not
\* carried over.
C10_DefaultRamdiskIsRawKernel ==
    (Past("append_ramdisk") /\ args_ramdisk = None) =>
        LET P == 16 - ((offsets.ramdisk + Len(kernel_file)) % 16) IN
        /\ ramdisk_len = Len(kernel_file) + P
        /\ SecondarySection = kernel_file \o Zeros(P)
        /\ SubSeq(SecondarySection, 1, Len(kernel_file))
              = Slice(final_data, offsets.kernel, offsets.kernel + Len(kernel_file))

C10_Witness ==
    /\ pc = "done"
    /\ "ramdisk" \notin argv
    /\ Len(kernel_file) = 16
    /\ kernel_len = 32
    /\ ramdisk_len = 32
====
